---------------------------- MODULE Spec2Model ----------------------------
(***************************************************************************)
(* State-machine model of src/etl/etl_daily.py: the CoinGecko fetcher with *)
(* its retry loop, the DataFrame normalizer, the schema bootstrap, the     *)
(* batch loader and the orchestrating main().                              *)
(*                                                                         *)
(* Each function is modelled by the actions below and exercised by a       *)
(* specification of its own (SpecFetch, SpecNorm, SpecBoot, SpecLoad) that *)
(* calls it with inputs drawn from bounded sets; SpecMain runs main().     *)
(***************************************************************************)
EXTENDS Integers, Sequences, FiniteSets, TLC

VARIABLES
    \* ---- fetch_coingecko_markets (lines 47-77)
    max_retries,   \* parameter max_retries
    backoff,       \* parameter backoff
    attempt,       \* local variable attempt
    fpc,           \* position: "idle" | "loop" | "returned" | "raised"
    events,        \* what the call did so far: HTTP GETs (with the response) and sleeps
    fetchRet,      \* the value returned (a list, or None)
    fetchErr,      \* the exception raised, "" if none
    \* ---- markets_to_dataframe (lines 81-111)
    records,       \* argument records
    now,           \* the clock read by pd.Timestamp.utcnow()
    npc,           \* position: "idle" | "call" | "returned" | "raised"
    df,            \* the DataFrame returned
    \* ---- the Postgres database behind the engine
    table,         \* crypto_prices: "absent" | "pk" (keyed by coin_id, load_timestamp) | "nopk"
    stored,        \* the committed rows of crypto_prices
    openConns,     \* connections checked out of the engine and not yet released
    \* ---- create_crypto_prices_table (lines 115-152), one invocation per process
    bpc,           \* position of each invocation
    bseen,         \* what create_all's existence check saw
    bpending,      \* the table each open transaction has created, "none" if none
    berr,          \* the exception each invocation raised, "" if none
    \* ---- load_to_postgres (lines 166-208)
    lpc,           \* position
    lrows,         \* local variable rows
    lpending,      \* rows inserted by the open transaction
    lret,          \* the dict returned
    lerr,          \* the exception raised, "" if none
    loadCalls,     \* calls made so far
    storeOps,      \* operations this call performed on the connection or engine
    lstored0,      \* the committed rows when this call started
    \* ---- main (lines 211-233)
    mpc,           \* position
    log,           \* messages written to the logger by main's own statements
    stored0        \* the committed rows when main started

fetchVars == <<max_retries, backoff, attempt, fpc, events, fetchRet, fetchErr>>
normVars  == <<records, now, npc, df>>
storeVars == <<table, stored, openConns>>
bootVars  == <<bpc, bseen, bpending, berr>>
loadVars  == <<lpc, lrows, lpending, lret, lerr, loadCalls, storeOps, lstored0>>
mainVars  == <<mpc, log, stored0>>
vars      == <<fetchVars, normVars, storeVars, bootVars, loadVars, mainVars>>

---------------------------------------------------------------------------
(* Bounds of the model.                                                    *)
MaxRetries        == 3   \* largest max_retries tried
NonPositiveTries  == 1   \* max_retries goes down to -NonPositiveTries
MaxBackoff        == 2   \* backoff is drawn from 1..MaxBackoff
MaxTime           == 2   \* clock values are 1..MaxTime
MaxLoads          == 3   \* calls of load_to_postgres in a row
MaxElapsed        == 1   \* a measured duration is 0..MaxElapsed seconds

(* Defaults of fetch_coingecko_markets, used by main().                    *)
DefaultMaxRetries == 3
DefaultBackoff    == 1

---------------------------------------------------------------------------
(* Values.  Python values are abstracted to tokens:                        *)
(*   "absent" the key is not in the dict     "txt"  a non-numeric string   *)
(*   "n7","n8" the numbers 7 and 8           "s7"   the string "7"         *)
(*   "iso"  an ISO-8601 string               "ts"   the parsed timestamp   *)
(*   "NaN"/"NaT" pandas' missing values      "None" Python's None          *)
Absent == "absent"

\* The instants the clock can show, as cell values.
TimeTokens == <<"t1", "t2", "t3", "t4", "t5">>
Stamp(t) == TimeTokens[t]

\* keep (lines 87-98): source field -> column, in dict order
KeepFields == <<"id", "symbol", "name", "current_price", "market_cap",
                "total_volume", "high_24h", "low_24h",
                "price_change_percentage_24h", "last_updated">>

KeepColumns == <<"coin_id", "symbol", "name", "current_price", "market_cap",
                 "total_volume", "high_24h", "low_24h",
                 "pct_change_24h", "last_updated">>

Fields == {KeepFields[i] : i \in 1..Len(KeepFields)}

keep(f) == KeepColumns[CHOOSE i \in 1..Len(KeepFields) : KeepFields[i] = f]

---------------------------------------------------------------------------
(* Sample API payloads: the JSON arrays an HTTP 200 response may carry.    *)
FullRecord(id, price) ==
    [f \in Fields |->
        CASE f = "id"            -> id
          [] f \in {"symbol", "name"} -> "txt"
          [] f = "current_price" -> price
          [] f = "last_updated"  -> "iso"
          [] OTHER               -> "n7"]

Pages ==
    { <<>>,
      <<FullRecord("bitcoin", "n7")>>,
      <<FullRecord("bitcoin", "n8"), FullRecord("ethereum", "s7")>>,
      <<FullRecord("bitcoin", "n7"), FullRecord("bitcoin", "n8")>>,
      <<[FullRecord("bitcoin", "n7") EXCEPT !["market_cap"] = Absent]>>,
      <<[FullRecord("bitcoin", "n7") EXCEPT !["current_price"] = "txt"],
        FullRecord("ethereum", "n7")>>,
      <<[FullRecord("bitcoin", "n7") EXCEPT !["high_24h"] = "txt"]>> }

---------------------------------------------------------------------------
(* fetch_coingecko_markets                                                 *)

\* What one session.get + raise_for_status + json + isinstance can end in
\* (lines 63-67): a list, or one of the exceptions the except clause catches.
FailKinds == {"network_error", "http_status", "bad_json", "not_a_list"}

NoneValue   == [tag |-> "None", data |-> <<>>]
ListValue(d) == [tag |-> "list", data |-> d]

GetEvent(kind, d) == [op |-> "get", kind |-> kind, data |-> d, secs |-> 0]
SleepEvent(s)     == [op |-> "sleep", kind |-> "", data |-> <<>>, secs |-> s]

\* line 60: while attempt < max_retries
LoopCond_Inclusive(a, n) == a <= n
LoopCond(a, n) == a < n

\* line 73: if attempt < max_retries
AttemptsRemain_Inclusive(a, n) == a <= n
AttemptsRemain(a, n) == a < n

\* line 74: sleep(backoff * attempt)
SleepSeconds_Constant(b, a) == b
SleepSeconds(b, a) == b * a

\* lines 47-59: the call; attempt = 0
FetchCall(n, b) ==
    /\ fpc = "idle"
    /\ max_retries' = n
    /\ backoff' = b
    /\ attempt' = 0
    /\ fpc' = "loop"
    /\ events' = <<>>
    /\ fetchRet' = NoneValue
    /\ fetchErr' = ""
    /\ UNCHANGED <<normVars, storeVars, bootVars, loadVars>>

\* lines 60-69: an iteration whose try block runs to the return
FetchSucceed ==
    /\ fpc = "loop"
    /\ LoopCond(attempt, max_retries)
    /\ \E d \in Pages :
          /\ events' = Append(events, GetEvent("ok", d))
          /\ fetchRet' = ListValue(d)
    /\ fpc' = "returned"
    /\ UNCHANGED <<max_retries, backoff, attempt, fetchErr>>
    /\ UNCHANGED <<normVars, storeVars, bootVars, loadVars, mainVars>>

\* lines 60-67, 70-77: an iteration whose try block raises
FetchFail ==
    /\ fpc = "loop"
    /\ LoopCond(attempt, max_retries)
    /\ \E k \in FailKinds :
          LET a == attempt + 1
              got == Append(events, GetEvent(k, <<>>))
          IN  /\ attempt' = a
              /\ IF AttemptsRemain(a, max_retries)
                    THEN /\ events' = Append(got, SleepEvent(SleepSeconds(backoff, a)))
                         /\ fpc' = "loop"
                         /\ fetchErr' = ""
                    ELSE /\ events' = got
                         /\ fpc' = "raised"
                         /\ fetchErr' = k
    /\ UNCHANGED <<max_retries, backoff, fetchRet>>
    /\ UNCHANGED <<normVars, storeVars, bootVars, loadVars, mainVars>>

\* line 60 false: the function body ends without a return statement
FetchFallThrough ==
    /\ fpc = "loop"
    /\ ~LoopCond(attempt, max_retries)
    /\ fpc' = "returned"
    /\ fetchRet' = NoneValue
    /\ UNCHANGED <<max_retries, backoff, attempt, events, fetchErr>>
    /\ UNCHANGED <<normVars, storeVars, bootVars, loadVars, mainVars>>

---------------------------------------------------------------------------
(* markets_to_dataframe                                                    *)

\* A DataFrame: its column labels in order, and its rows as tuples of cells.
DataFrame(cols, rows) == [cols |-> cols, rows |-> rows]
EmptyFrame == DataFrame(<<>>, <<>>)

Positions(cols, c) == {i \in 1..Len(cols) : cols[i] = c}
HasColumn(frame, c) == Positions(frame.cols, c) # {}
ColumnIndex(frame, c) == CHOOSE i \in Positions(frame.cols, c) : TRUE

\* pd.to_numeric(..., errors="coerce") on one cell (lines 102-105)
to_numeric(v) ==
    CASE v \in {"n7", "n8"} -> v
      [] v = "s7"           -> "n7"
      [] OTHER              -> "NaN"

\* pd.to_datetime(..., utc=True, errors="coerce") on one cell (line 108);
\* the cells of last_updated are ISO strings, other strings or missing.
to_datetime(v) ==
    CASE v = "iso" -> "ts"
      [] v = "ts"  -> "ts"
      [] OTHER     -> "NaT"

\* line 85: pd.json_normalize(records): one column per key that occurs in
\* some record, one row per record, NaN where a record lacks the key.
\* line 99-100: df[present].rename(...): the kept columns, in keep's order.
PresentFields(recs) ==
    SelectSeq(KeepFields, LAMBDA f : \E i \in 1..Len(recs) : recs[i][f] # Absent)

Projected(recs) ==
    LET present == PresentFields(recs)
    IN  DataFrame([j \in 1..Len(present) |-> keep(present[j])],
                  [i \in 1..Len(recs) |->
                      [j \in 1..Len(present) |->
                          IF recs[i][present[j]] = Absent THEN "NaN"
                          ELSE recs[i][present[j]]]])

Convert(how, v) == IF how = "numeric" THEN to_numeric(v) ELSE to_datetime(v)

\* df[c] = pd.to_numeric(df[c], ...) or pd.to_datetime(df[c], ...) for an
\* existing column c
MapColumn(frame, c, how) ==
    LET k == ColumnIndex(frame, c)
    IN  DataFrame(frame.cols,
                  [i \in 1..Len(frame.rows) |->
                      [j \in 1..Len(frame.cols) |->
                          IF j = k THEN Convert(how, frame.rows[i][j])
                          ELSE frame.rows[i][j]]])

\* df[c] = value for a new column c
AddColumn(frame, c, value) ==
    DataFrame(Append(frame.cols, c),
              [i \in 1..Len(frame.rows) |-> Append(frame.rows[i], value)])

\* lines 102-105: the columns coerced with pd.to_numeric, in program order.
\* df[c] on a missing column raises KeyError.
NumericCoerced ==
    <<"current_price", "market_cap", "total_volume", "pct_change_24h">>

RECURSIVE CoerceNumeric(_, _)
CoerceNumeric(frame, k) ==
    IF k > Len(NumericCoerced) THEN [status |-> "ok", frame |-> frame]
    ELSE IF ~HasColumn(frame, NumericCoerced[k])
         THEN [status |-> "KeyError", frame |-> EmptyFrame]
         ELSE CoerceNumeric(MapColumn(frame, NumericCoerced[k], "numeric"), k + 1)

\* lines 81-111
markets_to_dataframe(recs, t) ==
    IF recs = <<>> THEN [status |-> "ok", frame |-> EmptyFrame]
    ELSE LET num == CoerceNumeric(Projected(recs), 1)
         IN  IF num.status # "ok" THEN num
             ELSE LET dated == IF HasColumn(num.frame, "last_updated")
                               THEN MapColumn(num.frame, "last_updated", "datetime")
                               ELSE num.frame
                  IN  [status |-> "ok",
                       frame |-> AddColumn(dated, "load_timestamp", Stamp(t))]

\* One call of markets_to_dataframe, the clock reading t.
Normalize(recs, t) ==
    /\ npc = "idle"
    /\ records' = recs
    /\ now' = t
    /\ LET r == markets_to_dataframe(recs, t)
       IN  /\ npc' = IF r.status = "ok" THEN "returned" ELSE "raised"
           /\ df' = r.frame
    /\ UNCHANGED <<fetchVars, storeVars, bootVars, loadVars>>

---------------------------------------------------------------------------
(* The database: table crypto_prices as the DDL of lines 118-139 defines   *)
(* it, and the INSERT of lines 172-181.                                    *)

Procs == {1, 2}

\* Column(...) of lines 121-131, by position in the INSERT's column list.
TableColumns == Append(KeepColumns, "load_timestamp")
NotNullPositions == {1, 11}          \* nullable=False: coin_id, load_timestamp
NumericPositions == 4..9                \* Numeric(...)
Key(row) == <<row[1], row[11]>>         \* (coin_id, load_timestamp)
Keys(rows) == {Key(r) : r \in rows}

\* Lines 138-139 set primary_key on the Column objects after the Table was
\* constructed.  Whether the CREATE TABLE that create_all emits then carries
\* PRIMARY KEY (coin_id, load_timestamp) is decided by SQLAlchemy, outside
\* this file; both outcomes are kept.
EmittedTables == {"pk", "nopk"}

\* What Postgres stores for a parameter bound to a column: a numeric column
\* takes a number or a numeric literal.
StoredCell(pos, v) == IF pos \in NumericPositions /\ v = "s7" THEN "n7" ELSE v
StoredRow(row) == [j \in 1..Len(row) |-> StoredCell(j, row[j])]

\* line 180: ON CONFLICT (coin_id, load_timestamp) DO NOTHING
ConflictPolicy_None == "RAISE"
ConflictPolicy_Update == "DO UPDATE"
ConflictPolicy == "DO NOTHING"

\* One execution of INSERT_SQL with one parameter tuple, the transaction
\* seeing the rows `visible`: [err, rows].
InsertRow(tbl, visible, row) ==
    CASE Len(row) # Len(TableColumns) ->
            [err |-> "ParameterCountError", rows |-> visible]
      [] Len(row) = Len(TableColumns) /\ tbl = "absent" ->
            [err |-> "UndefinedTable", rows |-> visible]
      [] Len(row) = Len(TableColumns) /\ tbl = "nopk" ->
            [err |-> "InvalidColumnReference", rows |-> visible]
      [] OTHER ->
            IF \E j \in NotNullPositions : row[j] = "None"
            THEN [err |-> "NotNullViolation", rows |-> visible]
            ELSE IF \E j \in NumericPositions : row[j] \in {"txt", "iso"}
            THEN [err |-> "InvalidTextRepresentation", rows |-> visible]
            ELSE IF Key(row) \in Keys(visible)
            THEN CASE ConflictPolicy = "DO NOTHING" ->
                        [err |-> "", rows |-> visible]
                   [] ConflictPolicy = "DO UPDATE" ->
                        [err |-> "",
                         rows |-> {r \in visible : Key(r) # Key(row)}
                                     \cup {StoredRow(row)}]
                   [] OTHER ->
                        [err |-> "UniqueViolation", rows |-> visible]
            ELSE [err |-> "", rows |-> visible \cup {StoredRow(row)}]

\* line 197: cur.executemany(INSERT_SQL, rows): the statement once per tuple,
\* in order, in one transaction; the first error ends it.
RECURSIVE executemany(_, _, _, _)
executemany(tbl, visible, rows, k) ==
    IF k > Len(rows) THEN [err |-> "", rows |-> visible]
    ELSE LET one == InsertRow(tbl, visible, rows[k])
         IN  IF one.err # "" THEN one
             ELSE executemany(tbl, one.rows, rows, k + 1)

---------------------------------------------------------------------------
(* create_crypto_prices_table, invocation p                                *)

\* line 142: engine.begin() checks a connection out and opens a transaction
BootBegin(p) ==
    /\ bpc[p] = "idle"
    /\ \E connected \in BOOLEAN :
          IF connected
          THEN /\ openConns' = openConns + 1
               /\ bpc' = [bpc EXCEPT ![p] = "check"]
               /\ berr' = berr
          ELSE /\ openConns' = openConns
               /\ bpc' = [bpc EXCEPT ![p] = "raised"]
               /\ berr' = [berr EXCEPT ![p] = "OperationalError"]
    /\ UNCHANGED <<table, stored, bseen, bpending>>
    /\ UNCHANGED <<fetchVars, normVars, loadVars, mainVars>>

\* line 143: create_all's existence check (checkfirst): the transaction sees
\* the committed catalog; the connection may be lost instead
BootCheck(p) ==
    /\ bpc[p] = "check"
    /\ \E dropped \in BOOLEAN :
          IF dropped
          THEN /\ berr' = [berr EXCEPT ![p] = "OperationalError"]
               /\ bpc' = [bpc EXCEPT ![p] = "abort"]
               /\ bseen' = bseen
          ELSE /\ berr' = berr
               /\ bseen' = [bseen EXCEPT ![p] = (table # "absent")]
               /\ bpc' = [bpc EXCEPT ![p] =
                              IF table # "absent" THEN "verify" ELSE "create"]
    /\ UNCHANGED <<storeVars, bpending>>
    /\ UNCHANGED <<fetchVars, normVars, loadVars, mainVars>>

\* line 143: create_all's CREATE TABLE crypto_prices (...), issued because
\* the check saw no table.  Postgres makes it wait for another transaction
\* that has created the same name and not ended yet, and rejects it when the
\* name is committed.
BootCreate(p) ==
    /\ bpc[p] = "create"
    /\ \A q \in Procs \ {p} : bpending[q] = "none"
    /\ IF table # "absent"
       THEN /\ berr' = [berr EXCEPT ![p] = "DuplicateTable"]
            /\ bpc' = [bpc EXCEPT ![p] = "abort"]
            /\ bpending' = bpending
       ELSE /\ \E t \in EmittedTables :
                  bpending' = [bpending EXCEPT ![p] = t]
            /\ bpc' = [bpc EXCEPT ![p] = "verify"]
            /\ berr' = berr
    /\ UNCHANGED <<storeVars, bseen>>
    /\ UNCHANGED <<fetchVars, normVars, loadVars, mainVars>>

\* lines 145-152: the sanity SELECT in the same transaction, which sees the
\* committed table or the one this transaction created, and the print
BootVerify(p) ==
    /\ bpc[p] = "verify"
    /\ bpc' = [bpc EXCEPT ![p] = "commit"]
    /\ UNCHANGED <<storeVars, bseen, bpending, berr>>
    /\ UNCHANGED <<fetchVars, normVars, loadVars, mainVars>>

\* the end of the with block: commit, release of the connection
BootCommit(p) ==
    /\ bpc[p] = "commit"
    /\ table' = IF bpending[p] # "none" THEN bpending[p] ELSE table
    /\ bpending' = [bpending EXCEPT ![p] = "none"]
    /\ openConns' = openConns - 1
    /\ bpc' = [bpc EXCEPT ![p] = "returned"]
    /\ UNCHANGED <<stored, bseen, berr>>
    /\ UNCHANGED <<fetchVars, normVars, loadVars, mainVars>>

\* the with block left by an exception: rollback, release, re-raise
BootAbort(p) ==
    /\ bpc[p] = "abort"
    /\ bpending' = [bpending EXCEPT ![p] = "none"]
    /\ openConns' = openConns - 1
    /\ bpc' = [bpc EXCEPT ![p] = "raised"]
    /\ UNCHANGED <<table, stored, bseen, berr>>
    /\ UNCHANGED <<fetchVars, normVars, loadVars, mainVars>>

---------------------------------------------------------------------------
(* prepare_rows and load_to_postgres                                       *)

\* lines 155-163: one tuple per DataFrame row, None for a missing value
prepare_rows(frame) ==
    [i \in 1..Len(frame.rows) |->
        [j \in 1..Len(frame.rows[i]) |->
            IF frame.rows[i][j] \in {"NaN", "NaT"} THEN "None"
            ELSE frame.rows[i][j]]]

NoResult == [attempted |-> -1, elapsed_s |-> -1]
Result(n, e) == [attempted |-> n, elapsed_s |-> e]

\* line 186: if not rows
NoRows_Never(rows) == FALSE
NoRows(rows) == rows = <<>>

\* line 203: "attempted": len(rows)
Attempted_Inserted(rows, before, after) == Cardinality(after \ before)
Attempted(rows, before, after) == Len(rows)

\* line 208: raw_conn.close() in the finally clause; `failed` tells whether
\* the try block raised
FinallyClose_SuccessOnly(conns, failed) == IF failed THEN conns ELSE conns - 1
FinallyClose(conns, failed) == conns - 1

\* line 208 after an exception: what the table holds once the connection is
\* closed with rows inserted and no commit (line 200 was not reached or
\* failed): the transaction is rolled back.
Uncommitted_Kept(committed, pending) == pending
Uncommitted(committed, pending) == committed

\* lines 184-191: up to the early return or the start of the load
LoadCall(d) ==
    /\ lpc \in {"idle", "returned", "raised"}
    /\ LET rows == prepare_rows(d)
       IN  /\ lrows' = rows
           /\ IF NoRows(rows)
              THEN /\ lpc' = "returned"
                   /\ lret' = Result(0, 0)
              ELSE /\ lpc' = "connect"
                   /\ lret' = NoResult
    /\ lpending' = {}
    /\ lerr' = ""
    /\ loadCalls' = loadCalls + 1
    /\ storeOps' = 0
    /\ lstored0' = stored
    /\ UNCHANGED <<fetchVars, normVars, storeVars, bootVars>>

\* line 194: engine.raw_connection(), before the try block
LoadConnect ==
    /\ lpc = "connect"
    /\ storeOps' = storeOps + 1
    /\ \E connected \in BOOLEAN :
          IF connected
          THEN /\ openConns' = openConns + 1
               /\ lpc' = "execute"
               /\ lerr' = lerr
          ELSE /\ openConns' = openConns
               /\ lpc' = "raised"
               /\ lerr' = "OperationalError"
    /\ UNCHANGED <<table, stored, lrows, lpending, lret, loadCalls, lstored0>>
    /\ UNCHANGED <<fetchVars, normVars, bootVars, mainVars>>

\* lines 196-197: the batch, which the server or the connection may fail
LoadExecute ==
    /\ lpc = "execute"
    /\ storeOps' = storeOps + 1
    /\ LET batch == executemany(table, stored, lrows, 1)
       IN  \E dropped \in BOOLEAN :
              IF dropped \/ batch.err # ""
              THEN /\ lerr' = IF batch.err # "" THEN batch.err ELSE "OperationalError"
                   /\ lpending' = batch.rows
                   /\ lpc' = "closing_err"
              ELSE /\ lerr' = lerr
                   /\ lpending' = batch.rows
                   /\ lpc' = "commit"
    /\ UNCHANGED <<storeVars, lrows, lret, loadCalls, lstored0>>
    /\ UNCHANGED <<fetchVars, normVars, bootVars, mainVars>>

\* lines 200-203: commit, measure, build the result
LoadCommit ==
    /\ lpc = "commit"
    /\ storeOps' = storeOps + 1
    /\ \E committed \in BOOLEAN :
          IF committed
          THEN /\ stored' = lpending
               /\ lpending' = {}
               /\ \E e \in 0..MaxElapsed :
                     lret' = Result(Attempted(lrows, stored, lpending), e)
               /\ lpc' = "closing_ok"
               /\ lerr' = lerr
          ELSE /\ stored' = stored
               /\ lpending' = lpending
               /\ lret' = lret
               /\ lpc' = "closing_err"
               /\ lerr' = "OperationalError"
    /\ UNCHANGED <<table, openConns, lrows, loadCalls, lstored0>>
    /\ UNCHANGED <<fetchVars, normVars, bootVars, mainVars>>

\* lines 204-208: (log, re-raise,) close the connection, leave the function
LoadClose ==
    /\ lpc \in {"closing_ok", "closing_err"}
    /\ storeOps' = storeOps + 1
    /\ openConns' = FinallyClose(openConns, lpc = "closing_err")
    /\ stored' = IF lpc = "closing_err" THEN Uncommitted(stored, lpending)
                 ELSE stored
    /\ lpending' = {}
    /\ lpc' = IF lpc = "closing_ok" THEN "returned" ELSE "raised"
    /\ UNCHANGED <<table, lrows, lret, lerr, loadCalls, lstored0>>
    /\ UNCHANGED <<fetchVars, normVars, bootVars, mainVars>>

---------------------------------------------------------------------------
(* main                                                                    *)

\* lines 220-223: the run starts and calls the fetcher with its defaults
MainStart ==
    /\ mpc = "init"
    /\ log' = Append(log, "ETL extract started")
    /\ stored0' = stored
    /\ mpc' = "fetch"
    /\ FetchCall(DefaultMaxRetries, DefaultBackoff)

\* lines 224-227: the fetch returned; normalize, log, build the engine
MainNormalize ==
    /\ mpc = "fetch"
    /\ fpc = "returned"
    /\ \E t \in 1..MaxTime : Normalize(fetchRet.data, t)
    /\ IF npc' = "returned"
       THEN /\ log' = Append(log, "Extract complete")
            /\ mpc' = "bootstrap"
       ELSE /\ log' = Append(log, "ETL extract failed")
            /\ mpc' = "raised"
    /\ stored0' = stored0

\* line 228: the call of create_crypto_prices_table
MainBootstrap ==
    /\ mpc = "bootstrap"
    /\ BootBegin(1)

\* line 229: the bootstrap returned; call load_to_postgres
MainLoad ==
    /\ mpc = "bootstrap"
    /\ bpc[1] = "returned"
    /\ LoadCall(df)
    /\ mpc' = "load"
    /\ UNCHANGED <<log, stored0>>

\* line 230: the load returned; log the result
MainDone ==
    /\ mpc = "load"
    /\ lpc = "returned"
    /\ log' = Append(log, "result")
    /\ mpc' = "done"
    /\ stored0' = stored0
    /\ UNCHANGED <<fetchVars, normVars, storeVars, bootVars, loadVars>>

\* lines 231-233: an exception of the fetch, the bootstrap or the load
\* reaches the except clause: log it, re-raise
MainExcept ==
    /\ \/ mpc = "fetch" /\ fpc = "raised"
       \/ mpc = "bootstrap" /\ bpc[1] = "raised"
       \/ mpc = "load" /\ lpc = "raised"
    /\ log' = Append(log, "ETL extract failed")
    /\ mpc' = "raised"
    /\ stored0' = stored0
    /\ UNCHANGED <<fetchVars, normVars, storeVars, bootVars, loadVars>>

---------------------------------------------------------------------------
(* Initial states and specifications                                       *)

FetchIdle ==
    /\ max_retries = 0 /\ backoff = 0 /\ attempt = 0
    /\ fpc = "idle" /\ events = <<>> /\ fetchRet = NoneValue /\ fetchErr = ""

NormIdle ==
    /\ records = <<>> /\ now = 0 /\ npc = "idle" /\ df = EmptyFrame

BootIdle ==
    /\ bpc = [p \in Procs |-> "idle"]
    /\ bseen = [p \in Procs |-> FALSE]
    /\ bpending = [p \in Procs |-> "none"]
    /\ berr = [p \in Procs |-> ""]

LoadIdle ==
    /\ lpc = "idle" /\ lrows = <<>> /\ lpending = {} /\ lret = NoResult
    /\ lerr = "" /\ loadCalls = 0 /\ storeOps = 0 /\ lstored0 = {}

MainIdle ==
    /\ mpc = "init" /\ log = <<>> /\ stored0 = {}

\* The DataFrames the normalizer makes of the sample payloads.
Frames ==
    {markets_to_dataframe(p, t).frame : p \in Pages, t \in 1..MaxTime}

\* A snapshot an earlier run committed at the first instant.
PriorSnapshot ==
    executemany("pk", {},
                prepare_rows(markets_to_dataframe(
                    <<FullRecord("bitcoin", "n7")>>, 1).frame), 1).rows

\* The database a run or a call finds: an empty schema, or the table as
\* provisioned with its key or as an earlier bootstrap left it.
StoreInit ==
    /\ openConns = 0
    /\ \/ table = "absent" /\ stored = {}
       \/ table = "nopk" /\ stored = {}
       \/ table = "pk" /\ stored \in {{}, PriorSnapshot}

\* ---- fetch_coingecko_markets called once with any parameters
InitFetch ==
    /\ FetchIdle /\ NormIdle /\ BootIdle /\ LoadIdle /\ MainIdle
    /\ table = "absent" /\ stored = {} /\ openConns = 0

CallFetch ==
    /\ \E n \in (0 - NonPositiveTries)..MaxRetries, b \in 1..MaxBackoff :
          FetchCall(n, b)
    /\ UNCHANGED mainVars

NextFetch == CallFetch \/ FetchSucceed \/ FetchFail \/ FetchFallThrough

SpecFetch == InitFetch /\ [][NextFetch]_vars

\* ---- markets_to_dataframe called once with any records
\* A record: any subset of the kept fields, each present field holding a
\* value of its kind or a string that does not parse.
AnyRecord ==
    { [f \in Fields |->
         CASE f = "id" -> a [] f = "symbol" -> b [] f = "name" -> c
           [] f = "current_price" -> d [] f = "market_cap" -> e
           [] f = "total_volume" -> g [] f = "high_24h" -> h
           [] f = "low_24h" -> i [] f = "price_change_percentage_24h" -> j
           [] OTHER -> k] :
        a \in {Absent, "bitcoin"}, b \in {Absent, "txt"}, c \in {Absent, "txt"},
        d \in {Absent, "n7", "s7", "txt"}, e \in {Absent, "n7", "txt"},
        g \in {Absent, "n7", "txt"}, h \in {Absent, "n7", "txt"},
        i \in {Absent, "n7", "txt"}, j \in {Absent, "n7", "txt"},
        k \in {Absent, "iso", "txt"} }

OtherRecords ==
    { FullRecord("ethereum", "n7"),
      [f \in Fields |-> IF f = "id" THEN "ethereum" ELSE Absent] }

NormInputs ==
    {<<>>} \cup {<<r>> : r \in AnyRecord}
           \cup {<<r, o>> : r \in AnyRecord, o \in OtherRecords}

InitNorm ==
    /\ FetchIdle /\ NormIdle /\ BootIdle /\ LoadIdle /\ MainIdle
    /\ table = "absent" /\ stored = {} /\ openConns = 0

CallNormalize ==
    /\ npc = "idle"
    /\ \E recs \in NormInputs, t \in 1..MaxTime : Normalize(recs, t)
    /\ UNCHANGED mainVars

NextNorm == CallNormalize

SpecNorm == InitNorm /\ [][NextNorm]_vars

\* ---- create_crypto_prices_table invoked by two processes on one database
\* (the table is missing, or was provisioned with its key)
InitBoot ==
    /\ FetchIdle /\ NormIdle /\ BootIdle /\ LoadIdle /\ MainIdle
    /\ openConns = 0
    /\ \/ table = "absent" /\ stored = {}
       \/ table = "pk" /\ stored \in {{}, PriorSnapshot}

NextBoot ==
    \E p \in Procs :
        \/ BootBegin(p)
        \/ BootCheck(p)
        \/ BootCreate(p)
        \/ BootVerify(p)
        \/ BootCommit(p)
        \/ BootAbort(p)

SpecBoot == InitBoot /\ [][NextBoot]_vars

\* ---- load_to_postgres called up to MaxLoads times in a row
\* (on a table that holds no rows yet: every row was put there by a call)
InitLoad ==
    /\ FetchIdle /\ NormIdle /\ BootIdle /\ LoadIdle /\ MainIdle
    /\ openConns = 0
    /\ table \in {"absent", "nopk", "pk"}
    /\ stored = {}

CallLoad ==
    /\ loadCalls < MaxLoads
    /\ \E d \in Frames : LoadCall(d)
    /\ UNCHANGED mainVars

NextLoad == CallLoad \/ LoadConnect \/ LoadExecute \/ LoadCommit \/ LoadClose

SpecLoad == InitLoad /\ [][NextLoad]_vars

\* ---- one run of main (with max_retries = 3 the loop of the fetcher never
\* ends by its condition, so FetchFallThrough has no step here)
InitMain ==
    /\ FetchIdle /\ NormIdle /\ BootIdle /\ LoadIdle /\ MainIdle
    /\ StoreInit

NextMain ==
    \/ MainStart
    \/ FetchSucceed
    \/ FetchFail
    \/ MainNormalize
    \/ MainBootstrap
    \/ BootCheck(1)
    \/ BootCreate(1)
    \/ BootVerify(1)
    \/ BootCommit(1)
    \/ BootAbort(1)
    \/ MainLoad
    \/ LoadConnect
    \/ LoadExecute
    \/ LoadCommit
    \/ LoadClose
    \/ MainDone
    \/ MainExcept

SpecMain == InitMain /\ [][NextMain]_vars

Spec == SpecMain

---------------------------------------------------------------------------
(* Properties                                                              *)

Gets == SelectSeq(events, LAMBDA e : e.op = "get")
AllFailed(gets) == \A i \in 1..Len(gets) : gets[i].kind \in FailKinds

\* C1 (retry bound): with max_retries = N >= 1 the fetcher never makes more
\* than N HTTP attempts and keeps trying while attempts fail and fewer than N
\* were made; it raises only after exactly N failed attempts, with the error
\* of the last one; it returns only right after a successful attempt k <= N
\* that followed k-1 failed ones, and returns that attempt's list.
C1_RetryBound ==
    (fpc # "idle" /\ max_retries >= 1) =>
        LET n == Len(Gets)
        IN  /\ n <= max_retries
            /\ AllFailed(SubSeq(Gets, 1, n - 1))
            /\ fpc = "loop" => n < max_retries /\ AllFailed(Gets) /\ attempt = n
            /\ fpc = "raised" =>
                  /\ n = max_retries
                  /\ AllFailed(Gets)
                  /\ fetchErr = Gets[n].kind
            /\ fpc = "returned" =>
                  /\ n >= 1
                  /\ Gets[n].kind = "ok"
                  /\ fetchRet = ListValue(Gets[n].data)

\* C1 witness: with max_retries = 3 the first attempt failed, the second
\* succeeded and its non-empty list was returned.
C1_Witness ==
    /\ fpc = "returned" /\ max_retries = 3 /\ Len(Gets) = 2
    /\ Gets[1].kind \in FailKinds
    /\ fetchRet.tag = "list" /\ fetchRet.data # <<>>

\* C7 (linear backoff): what the fetcher does is GET, sleep, GET, sleep, ...:
\* failed attempt i with i < max_retries is directly followed by one sleep of
\* backoff * i, which precedes attempt i+1; nothing follows a successful
\* attempt or failed attempt number max_retries.
C7_LinearBackoff ==
    \A j \in 1..Len(events) :
        LET e == events[j]
            i == (j + 1) \div 2
        IN  /\ j % 2 = 1 => e.op = "get"
            /\ j % 2 = 0 =>
                  /\ e.op = "sleep"
                  /\ e.secs = backoff * i
                  /\ events[j - 1].kind \in FailKinds
                  /\ i < max_retries
            /\ (e.op = "get" /\ e.kind \in FailKinds /\ i < max_retries) =>
                  /\ j < Len(events)
                  /\ events[j + 1].op = "sleep"
            /\ (e.op = "get" /\ (e.kind = "ok" \/ i >= max_retries)) =>
                  j = Len(events)

\* C7 witness: with backoff = 2, two attempts failed and the sleeps were 2 and
\* 4 seconds.
C7_Witness ==
    /\ backoff = 2 /\ Len(events) >= 4
    /\ events[2].op = "sleep" /\ events[2].secs = 2
    /\ events[4].op = "sleep" /\ events[4].secs = 4

\* C10 (max_retries <= 0): such a call makes no HTTP attempt and no sleep,
\* never raises, and can only end by returning None; a call with
\* max_retries >= 1 returns nothing but a list, and while it runs its next
\* step is another attempt, never the end of the loop.
C10_NonPositiveRetries ==
    fpc # "idle" =>
        /\ max_retries <= 0 =>
              /\ events = <<>>
              /\ fpc # "raised" /\ fetchErr = ""
              /\ fpc = "returned" => fetchRet = NoneValue
              /\ fpc = "loop" =>
                    /\ ENABLED FetchFallThrough
                    /\ ~ENABLED FetchSucceed
                    /\ ~ENABLED FetchFail
        /\ max_retries >= 1 =>
              /\ fpc = "returned" => fetchRet.tag = "list"
              /\ fpc = "loop" =>
                    /\ ~ENABLED FetchFallThrough
                    /\ ENABLED FetchSucceed
                    /\ ENABLED FetchFail

\* C10 witness: a call with a negative max_retries has returned None.
C10_Witness ==
    /\ max_retries < 0 /\ fpc = "returned" /\ fetchRet = NoneValue

\* The fields the specification calls numeric, and the timestamp field.
NumericFields ==
    {"current_price", "market_cap", "total_volume", "high_24h", "low_24h",
     "price_change_percentage_24h"}
Unparseable(f, v) == f \in NumericFields \cup {"last_updated"} /\ v = "txt"
IsNull(frame, i, c) ==
    ~HasColumn(frame, c) \/ frame.rows[i][ColumnIndex(frame, c)] \in {"NaN", "NaT"}

\* C3 (normalization totality): for non-empty records markets_to_dataframe
\* does not raise, returns one row per record, and a row is null in a kept
\* field exactly when the record lacks the field or holds an unparseable
\* string in it (a column the frame lacks altogether counts as null).
C3_NormalizationTotal ==
    (npc # "idle" /\ records # <<>>) =>
        /\ npc = "returned"
        /\ Len(df.rows) = Len(records)
        /\ \A i \in 1..Len(records), f \in Fields :
              IsNull(df, i, keep(f)) <=>
                  (records[i][f] = Absent \/ Unparseable(f, records[i][f]))

\* C6 (idempotent bootstrap): no invocation of create_crypto_prices_table
\* fails because the table exists, and once both invocations have returned
\* the table exists with primary key (coin_id, load_timestamp).
C6_BootstrapIdempotent ==
    /\ \A p \in Procs : berr[p] # "DuplicateTable"
    /\ (\A p \in Procs : bpc[p] = "returned") => table = "pk"

KeysUnique(rows) == \A r1, r2 \in rows : Key(r1) = Key(r2) => r1 = r2

\* C2 (idempotent insert): the table never holds two rows with one
\* (coin_id, load_timestamp); no call fails on a key that is already there;
\* a call that committed reports as attempted the number of rows submitted,
\* and each submitted key is then persisted exactly once.
C2_IdempotentInsert ==
    /\ KeysUnique(stored)
    /\ lerr # "UniqueViolation"
    /\ (lpc \in {"closing_ok", "returned"} /\ lrows # <<>>) =>
          /\ lret.attempted = Len(lrows)
          /\ \A i \in 1..Len(lrows) :
                Cardinality({r \in stored : Key(r) = Key(lrows[i])}) = 1

\* C2 witness: a later call submitted two rows, one with a key an earlier
\* call had persisted; it returned with attempted = 2.
C2_Witness ==
    /\ lpc = "returned" /\ loadCalls >= 2 /\ Len(lrows) = 2
    /\ \E i \in 1..Len(lrows) : Key(lrows[i]) \in Keys(lstored0)
    /\ lret.attempted = 2
    /\ Cardinality(stored) = Cardinality(lstored0) + 1

C5_EmptyInputNoOp ==
    (lpc # "idle" /\ lrows = <<>>) =>
        /\ lpc = "returned"
        /\ storeOps = 0
        /\ lret = Result(0, 0)
        /\ stored = lstored0
        /\ lpending = {}
        /\ openConns = 0

\* C5 witness: a call with no rows returned on a table that holds rows.
C5_Witness ==
    /\ lpc = "returned" /\ lrows = <<>> /\ loadCalls >= 2 /\ stored # {}
    /\ lret.attempted = 0

StageRaised == fpc = "raised" \/ npc = "raised" \/ bpc[1] = "raised" \/ lpc = "raised"

\* C8 (a failed run): a load whose batch or commit failed leaves the table's
\* rows as they were; a run that ended in failure persisted no row and its
\* last log entry is the failure; a stage that raised is followed by no later
\* stage and takes the run to its except clause, never to a normal end.
C8_FailedRunPersistsNothing ==
    /\ lpc \in {"closing_err", "raised"} => stored = stored0
    /\ mpc = "raised" =>
          /\ stored = stored0
          /\ log[Len(log)] = "ETL extract failed"
          /\ StageRaised
    /\ mpc = "done" => ~StageRaised /\ lpc = "returned"
    /\ fpc = "raised" => npc = "idle"
    /\ (fpc = "raised" \/ npc = "raised") => bpc[1] = "idle"
    /\ (fpc = "raised" \/ npc = "raised" \/ bpc[1] = "raised") => lpc = "idle"
    /\ StageRaised => (mpc = "raised" \/ ENABLED MainExcept)

\* C8 witness: the run failed in the batch insert, on a value Postgres
\* rejects, after the bootstrap had created the table.
C8_Witness ==
    /\ mpc = "raised" /\ lpc = "raised" /\ lerr = "InvalidTextRepresentation"
    /\ bseen[1] = FALSE /\ table = "pk"

\* C9 (connections released): outside create_crypto_prices_table's with
\* block and load_to_postgres' try block no connection is open, whether the
\* operation returned or raised; a finished run holds none.
C9_ConnectionsReleased ==
    /\ openConns \in 0..1
    /\ (/\ bpc[1] \in {"idle", "returned", "raised"}
        /\ lpc \in {"idle", "connect", "returned", "raised"}) => openConns = 0
    /\ mpc \in {"done", "raised"} => openConns = 0

\* C9 witness: the load acquired a connection, its batch failed, and the run
\* ended with the connection released.
C9_Witness ==
    /\ mpc = "raised" /\ lpc = "raised" /\ storeOps >= 3 /\ openConns = 0

====
